---- MODULE Spec2Model ----
(***************************************************************************)
(* Contact-request workflow of ricochet: IncomingRequestManager and       *)
(* IncomingContactRequest (src/src/core/IncomingRequestManager.cpp).      *)
(*                                                                         *)
(* One process runs a single-threaded event loop; every handler runs to   *)
(* completion before the next event is delivered, so every handler is one *)
(* action.  Inside a handler the calls are composed, in source order, as  *)
(* operators on a record S holding the whole program state, so that the   *)
(* signal handlers a call triggers (Channel::invalidated,                 *)
(* Connection::closed) run re-entrantly where the code runs them.         *)
(*                                                                         *)
(* Protocol::Connection, Protocol::ContactRequestChannel, ContactsManager *)
(* and SettingsObject are not part of the sources; they are modelled from *)
(* sections 4.2, 4.3 and 6 of the specification.                          *)
(***************************************************************************)
EXTENDS Integers, Sequences, FiniteSets, TLC

\* ---- bounds of the model ------------------------------------------------
MaxConn == 2    \* connection objects alive at once
MaxChan == 2    \* contact-request channel objects alive at once
MaxReq  == 2    \* IncomingContactRequest objects alive at once
MaxTime == 2    \* readings of the clock (0 is the null QDateTime)
MaxContacts == 2 \* contacts the contacts manager holds

ConnIds == 1..MaxConn
ChanIds == 1..MaxChan
ReqIds  == 1..MaxReq

\* ---- hostnames ----------------------------------------------------------
\* A hostname is a sequence of tokens; the suffix ".onion" is one token, so
\* that endsWith(".onion"), chop(6) and append(".onion") are computed.
Onion == ".onion"
HostA == <<"a", Onion>>
HostB == <<"b", Onion>>
HostMe == <<"me", Onion>>
\* what Connection::authenticatedIdentity(HiddenServiceAuth) can return:
\* empty (not authenticated), a name without the suffix, a remote service,
\* or the hostname of one of the local identities
AuthIds == {<< >>, <<"a">>, HostA, HostB, HostMe}
\* identityManager->lookupHostname: the hostnames of the local identities
LocalIdentities == {HostMe}
\* the order in which SettingsObject::data().keys() lists its keys
KeyOrder == <<<<"a">>, <<"b">>, <<"me">>>>

\* what a peer's contact-request channel carries (nickname, message)
Payloads == { [nickname |-> "", message |-> "hi"],
              [nickname |-> "Bob", message |-> "yo"] }

\* The environments the model is run in, as two constant configurations would
\* be: "wide" has two remote services that send one payload at one time;
\* "deep" has one remote service, every kind of identity, every payload and
\* a clock that advances; "kill", the environment of the runs in which the
\* process can be killed, has one remote service and every payload.
Scenarios == {"wide", "deep"}
IdsOf(sc) == CASE sc = "wide" -> {HostA, HostB}
               [] sc = "deep" -> AuthIds \ {HostB}
               [] OTHER -> {HostA}
PayloadsOf(sc) == IF sc = "wide" THEN {[nickname |-> "Bob", message |-> "yo"]}
                  ELSE Payloads
MaxTimeOf(sc) == IF sc = "wide" THEN 1 ELSE MaxTime
\* the nickname ContactsManager gives a contact it created itself before it
\* calls accept(user)
CallerNick == "Bob"

Statuses == {"None", "Pending", "Accepted", "Rejected", "Error"}

VARIABLES
    m_requests,        \* IncomingRequestManager::m_requests: sequence of request ids
    reqs,              \* the IncomingContactRequest objects, by id
    conns,             \* the Protocol::Connection objects, by id
    chans,             \* the Protocol::ContactRequestChannel objects, by id
    contactRequests,   \* settings "contactRequests": key -> persisted record
    hostnameBlacklist, \* settings "hostnameBlacklist": sequence of hostnames
    contacts,          \* ContactsManager: sequence of contacts (persisted)
    now,               \* QDateTime::currentDateTime()
    running,           \* the process is alive
    scenario,          \* the environment of this run
    rejected,          \* history: the hostnames whose request reject() has removed
    trace,             \* what the last handler did, in order
    commandBuffer,     \* ProtocolCommand::commandBuffer of the last command sent
    chat               \* the last ChatMessageCommand call: inputs and outcome

vars == <<m_requests, reqs, conns, chans, contactRequests, hostnameBlacklist,
          contacts, now, running, scenario, rejected, trace, commandBuffer, chat>>

\* no ChatMessageCommand call has been made
NoChat == [op |-> "none"]

\* ---- objects ------------------------------------------------------------
DefaultParent == <<"default", 0>>
ReqParent(r) == <<"req", r>>
ContactParent(k) == <<"contact", k>>

NoReq == [st |-> "None", hostname |-> << >>, nickname |-> "", message |-> "",
          requestDate |-> 0, lastRequestDate |-> 0, connection |-> 0]
NoConn == [st |-> "None", identity |-> << >>, purpose |-> "Unknown",
           parent |-> DefaultParent]
NoChan == [st |-> "None", conn |-> 0, nickname |-> "", message |-> "", owner |-> 0]

\* mutant: every identity passes for a hidden-service address
EndsWithOnion_Always(h) == TRUE

\* QString::endsWith(".onion")
EndsWithOnion(h) == Len(h) > 0 /\ h[Len(h)] = Onion

\* IncomingContactRequest::settingsKey: the hostname with ".onion" chopped
\* off its end (QString::chop removes the last six characters)
settingsKey(h) == SubSeq(h, 1, Len(h) - 1)

\* loadRequests, lines 67-69: the hostname rebuilt from a settings key
HostOfKey(k) == IF EndsWithOnion(k) THEN k ELSE Append(k, Onion)

\* the program state a handler works on
State == [m_requests |-> m_requests, reqs |-> reqs, conns |-> conns,
          chans |-> chans, store |-> contactRequests,
          blacklist |-> hostnameBlacklist, contacts |-> contacts,
          rejected |-> rejected, trace |-> trace, aborted |-> FALSE]

Log(S, e) == [S EXCEPT !.trace = Append(@, e)]

Range(s) == {s[i] : i \in 1..Len(s)}

RECURSIVE Remove(_, _)
\* QList::removeOne: the sequence without the first occurrence of x
Remove(s, x) ==
    IF s = << >> THEN << >>
    ELSE IF Head(s) = x THEN Tail(s)
    ELSE <<Head(s)>> \o Remove(Tail(s), x)


\* ---- Protocol::Connection and Protocol::Channel --------------------------
\* Signals are delivered by direct connection, inside the emitting call.
\* Whether a call emits its signal before it returns or from the event loop
\* afterwards is not fixed by the specification, so every handler draws it:
\* syncInv (a channel that closes itself after a terminal reply emits
\* invalidated inside setResponseStatus) and syncClosed (close() emits closed
\* before it returns).

\* mutant: the request is destroyed with its connection
ClosedEmitted_Destroys(S, c) ==
    [S EXCEPT !.m_requests = SelectSeq(@, LAMBDA r : S.reqs[r].connection # c),
              !.conns[c].st = "Dead"]

\* the closed handler installed by setChannel, lines 295-303, run for every
\* request that attached c; the connection object is left for deleteLater
ClosedEmitted(S, c) ==
    [S EXCEPT !.reqs = [r \in ReqIds |->
                           IF S.reqs[r].st # "None" /\ S.reqs[r].connection = c
                           THEN [S.reqs[r] EXCEPT !.connection = 0]
                           ELSE S.reqs[r]],
              !.conns[c].st = "Dead"]

\* Connection::close(): idempotent; closes the channels the connection owns,
\* marks it closed, and emits closed now or later
ConnClose(S, c, syncClosed) ==
    IF S.conns[c].st # "Open" THEN S
    ELSE LET S1 == [S EXCEPT !.conns[c].st = "Closed",
                             !.chans = [x \in ChanIds |->
                                           IF S.chans[x].conn = c THEN NoChan
                                           ELSE S.chans[x]],
                             !.trace = Append(@, <<"close", c>>)]
         IN IF syncClosed THEN ClosedEmitted(S1, c) ELSE S1

\* the invalidated handler installed by setChannel, lines 269-278, of request
\* r for a channel of connection c
InvalidatedHandler(S, r, c, syncClosed) ==
    IF /\ r # 0
       /\ S.reqs[r].st # "None"
       /\ S.reqs[r].connection = c
       /\ S.conns[c].purpose = "InboundRequest"
    THEN ConnClose(S, c, syncClosed)
    ELSE S

\* a channel reaches Closed: invalidated fires, once
ChannelClosed(S, ch, syncClosed) ==
    IF S.chans[ch].st = "None" THEN S
    ELSE InvalidatedHandler([S EXCEPT !.chans[ch] = NoChan],
                            S.chans[ch].owner, S.chans[ch].conn, syncClosed)

Terminal(status) == status \in {"Accepted", "Rejected", "Error"}

\* ContactRequestChannel::setResponseStatus: the reply is handed to the
\* channel; after a terminal reply an open channel closes itself
SetResponseStatus(S, ch, host, status, syncInv, syncClosed) ==
    LET S1 == Log(S, <<"reply", host, status>>)
    IN IF S.chans[ch].st = "Open" /\ Terminal(status)
       THEN IF syncInv THEN ChannelClosed(S1, ch, syncClosed)
            ELSE [S1 EXCEPT !.chans[ch].st = "Closing"]
       ELSE S1

\* Connection::setPurpose: succeeds only from Unknown
CanSetPurpose(S, c) == S.conns[c].purpose = "Unknown"

\* Connection::findChannel<ContactRequestChannel>(): a channel the connection
\* still owns, 0 when it has none
findChannel(S, c) ==
    LET own == {x \in ChanIds : S.chans[x].st # "None" /\ S.chans[x].conn = c}
    IN IF own = {} THEN 0 ELSE CHOOSE x \in own : \A y \in own : x <= y

\* ContactUser::assignConnection: the contact re-parents the connection to
\* itself, or (the bug accept() logs) fails to
assignConnection(S, user, c, claims) ==
    IF claims THEN [S EXCEPT !.conns[c].parent = ContactParent(user),
                             !.trace = Append(@, <<"claimed", c>>)]
    ELSE S

\* ContactsManager::lookupHostname
lookupHostname(S, h) == \E k \in 1..Len(S.contacts) : S.contacts[k].hostname = h

\* ContactsManager::addContact(nickname) followed by setHostname
addContact(S, nickname, h) ==
    [S EXCEPT !.contacts = Append(@, [nickname |-> nickname, hostname |-> h])]

\* ---- IncomingRequestManager ---------------------------------------------
\* mutant: the lookup finds nothing
requestFromHostname_Blind(S, h) == 0

\* requestFromHostname, lines 88-99: the first request of the list with this
\* hostname, 0 when there is none
requestFromHostname(S, h) ==
    LET hits == {i \in 1..Len(S.m_requests) : S.reqs[S.m_requests[i]].hostname = h}
    IN IF hits = {} THEN 0
       ELSE S.m_requests[CHOOSE i \in hits : \A j \in hits : i <= j]

\* mutant: the blacklist is never consulted
isHostnameRejected_Never(S, h) == FALSE

\* isHostnameRejected, lines 179-183
isHostnameRejected(S, h) == h \in Range(S.blacklist)

\* mutant: reject() does not record the hostname
addRejectedHost_Forgets(S, h) == S

\* addRejectedHost, lines 169-177
addRejectedHost(S, h) ==
    IF h \in Range(S.blacklist) THEN S
    ELSE [S EXCEPT !.blacklist = Append(@, h)]

\* mutant: the request stays in the list
managerRemoveRequest_Leaves(S, r) == S

\* IncomingRequestManager::removeRequest: the request leaves the list and is
\* scheduled for deletion
managerRemoveRequest(S, r) ==
    [S EXCEPT !.m_requests = Remove(@, r), !.reqs[r].st = "Doomed"]

\* ---- IncomingContactRequest ---------------------------------------------
NewRequest(h) == [NoReq EXCEPT !.st = "Live", !.hostname = h]

\* save, lines 215-227
save(S, r) ==
    LET q == S.reqs[r]
        rd == IF q.requestDate = 0 THEN now ELSE q.requestDate
        ld == IF q.requestDate = 0 THEN now ELSE q.lastRequestDate
        key == settingsKey(q.hostname)
        rec == [nickname |-> q.nickname, message |-> q.message,
                requestDate |-> rd, lastRequestDate |-> ld]
    IN [S EXCEPT !.reqs[r].requestDate = rd,
                 !.reqs[r].lastRequestDate = ld,
                 !.store = [k \in (DOMAIN S.store) \cup {key} |->
                               IF k = key THEN rec ELSE S.store[k]]]

\* mutant: the timestamp is not refreshed
renew_Stale(S, r) == S

\* renew, lines 229-232
renew(S, r) == [S EXCEPT !.reqs[r].lastRequestDate = now]

\* mutant: the persisted record is left behind
removeRequest_Keeps(S, r) == S

\* removeRequest, lines 234-237
removeRequest(S, r) ==
    LET key == settingsKey(S.reqs[r].hostname)
    IN [S EXCEPT !.store = [k \in (DOMAIN S.store) \ {key} |-> S.store[k]]]

\* mutant: the text of the new channel is not taken over
setChannel_KeepsText(S, r, ch, c, nickname, message, syncClosed) ==
    LET old == S.reqs[r].connection
        S1 == IF old # 0 THEN ConnClose(S, old, syncClosed) ELSE S
        S2 == IF S1.chans[ch].st # "None"
              THEN [S1 EXCEPT !.chans[ch].owner = r] ELSE S1
    IN IF ~CanSetPurpose(S2, c)
       THEN ConnClose(S2, c, syncClosed)
       ELSE [S2 EXCEPT !.conns[c].purpose = "InboundRequest",
                       !.conns[c].parent = ReqParent(r),
                       !.reqs[r].connection = c]

\* mutant: the connection is attached whether or not setPurpose succeeded
setChannel_Grabs(S, r, ch, c, nickname, message, syncClosed) ==
    LET old == S.reqs[r].connection
        S1 == IF old # 0 THEN ConnClose(S, old, syncClosed) ELSE S
        S2 == IF S1.chans[ch].st # "None"
              THEN [S1 EXCEPT !.chans[ch].owner = r] ELSE S1
    IN [S2 EXCEPT !.conns[c].purpose = "InboundRequest",
                  !.conns[c].parent = ReqParent(r),
                  !.reqs[r].connection = c,
                  !.reqs[r].nickname = nickname,
                  !.reqs[r].message = message]

\* setChannel, lines 261-310, for channel ch of connection c, which carries
\* nickname and message
setChannel(S, r, ch, c, nickname, message, syncClosed) ==
    LET old == S.reqs[r].connection
        S1 == IF old # 0 THEN ConnClose(S, old, syncClosed) ELSE S
        S2 == IF S1.chans[ch].st # "None"
              THEN [S1 EXCEPT !.chans[ch].owner = r] ELSE S1
    IN IF ~CanSetPurpose(S2, c)
       THEN ConnClose(S2, c, syncClosed)
       ELSE [S2 EXCEPT !.conns[c].purpose = "InboundRequest",
                       !.conns[c].parent = ReqParent(r),
                       !.reqs[r].connection = c,
                       !.reqs[r].nickname = nickname,
                       !.reqs[r].message = message]


\* IncomingRequestManager::requestReceived for channel ch of connection c.
\* crash: the process dies after line 152 (the reply) and before line 154.
requestReceived(S, ch, c, r, syncInv, syncClosed, crash) ==
    LET hostname == S.conns[c].identity
        nickname == S.chans[ch].nickname
        message == S.chans[ch].message
    IN IF hostname = << >> \/ ~EndsWithOnion(hostname)
       THEN SetResponseStatus(S, ch, hostname, "Error", syncInv, syncClosed)
       ELSE IF isHostnameRejected(S, hostname)
       THEN SetResponseStatus(S, ch, hostname, "Rejected", syncInv, syncClosed)
       ELSE IF hostname \in LocalIdentities
       THEN SetResponseStatus(S, ch, hostname, "Error", syncInv, syncClosed)
       ELSE LET request == requestFromHostname(S, hostname)
                newRequest == request = 0
                q == IF newRequest THEN r ELSE request
                S1 == IF newRequest
                      THEN [S EXCEPT !.reqs[q] = NewRequest(hostname)] ELSE S
                S2 == setChannel(S1, q, ch, c, nickname, message, syncClosed)
                S3 == IF newRequest THEN S2 ELSE renew(S2, q)
            IN IF lookupHostname(S3, hostname)
               THEN Log(S3, <<"bug", 147>>)
               ELSE LET S4 == SetResponseStatus(S3, ch, hostname, "Pending",
                                                syncInv, syncClosed)
                        S5 == save(S4, q)
                    IN IF crash THEN [S4 EXCEPT !.aborted = TRUE]
                       ELSE IF newRequest
                       THEN [S5 EXCEPT !.m_requests = Append(@, q)]
                       ELSE S5

\* IncomingContactRequest::accept(user); user = 0 is the null pointer.
\* asserts: the build keeps Q_ASSERT.  ubCont: what a dereference of the
\* cleared connection pointer does (FALSE: the process dies; TRUE: the
\* statement has no effect and execution goes on).
accept(S, r, user, claims, asserts, syncInv, syncClosed, ubCont) ==
    LET q == S.reqs[r]
        c == q.connection
    IN IF user = 0 /\ q.nickname = "" /\ asserts
       THEN [Log(S, <<"assert", 318>>) EXCEPT !.aborted = TRUE]
       ELSE
       LET S1 == IF user = 0 THEN addContact(S, q.nickname, q.hostname) ELSE S
           u == IF user = 0 THEN Len(S1.contacts) ELSE user
           ch == IF c = 0 THEN 0 ELSE findChannel(S1, c)
           A1 == assignConnection(S1, u, c, claims)
           A2 == SetResponseStatus(A1, ch, q.hostname, "Accepted", syncInv, syncClosed)
           S2 == IF c = 0 THEN S1
                 ELSE IF ch = 0
                 THEN [ConnClose(S1, c, syncClosed) EXCEPT !.reqs[r].connection = 0]
                 ELSE IF A2.reqs[r].connection = 0
                 THEN IF ubCont THEN Log(A2, <<"nullderef", 333>>)
                      ELSE [Log(A2, <<"nullderef", 333>>) EXCEPT !.aborted = TRUE]
                 ELSE IF A2.conns[c].parent # ContactParent(u)
                 THEN [ConnClose(Log(A2, <<"bug", 334>>), c, syncClosed)
                          EXCEPT !.reqs[r].connection = 0]
                 ELSE [A2 EXCEPT !.reqs[r].connection = 0]
       IN IF S2.aborted THEN S2
          ELSE managerRemoveRequest(removeRequest(S2, r), r)

\* IncomingContactRequest::reject()
reject(S, r, syncInv, syncClosed, ubCont) ==
    LET q == S.reqs[r]
        c == q.connection
        ch == IF c = 0 THEN 0 ELSE findChannel(S, c)
        R1 == IF ch # 0
              THEN SetResponseStatus(S, ch, q.hostname, "Rejected", syncInv, syncClosed)
              ELSE S
        S1 == IF c = 0 THEN S
              ELSE IF R1.reqs[r].connection = 0
              THEN IF ubCont THEN Log(R1, <<"nullderef", 360>>)
                   ELSE [Log(R1, <<"nullderef", 360>>) EXCEPT !.aborted = TRUE]
              ELSE [ConnClose(R1, c, syncClosed) EXCEPT !.reqs[r].connection = 0]
    IN IF S1.aborted THEN S1
       ELSE managerRemoveRequest(addRejectedHost(removeRequest(S1, r), q.hostname), r)

\* IncomingContactRequest::load via loadRequests, lines 66-76: the i-th key of
\* the settings, as a request object
LoadedRequest(store, k) ==
    [st |-> "Live", hostname |-> HostOfKey(k),
     nickname |-> store[k].nickname, message |-> store[k].message,
     requestDate |-> store[k].requestDate,
     lastRequestDate |-> store[k].lastRequestDate, connection |-> 0]

StoredKeys(store) == SelectSeq(KeyOrder, LAMBDA k : k \in DOMAIN store)

\* ---- the event loop -----------------------------------------------------
\* deleteLater: objects scheduled for deletion go when the handler returns;
\* a request takes the connections it parents with it, and tracked pointers
\* to deleted objects read as null
Sweep(S) ==
    LET goneReq(r) == S.reqs[r].st = "Doomed"
        goneConn(c) == \/ S.conns[c].st = "Dead"
                       \/ /\ S.conns[c].st # "None"
                          /\ \E r \in ReqIds : goneReq(r) /\ S.conns[c].parent = ReqParent(r)
    IN [S EXCEPT
          !.reqs = [r \in ReqIds |->
                      IF goneReq(r) \/ S.reqs[r].st = "None" THEN NoReq
                      ELSE IF S.reqs[r].connection # 0 /\ goneConn(S.reqs[r].connection)
                      THEN [S.reqs[r] EXCEPT !.connection = 0]
                      ELSE S.reqs[r]],
          !.conns = [c \in ConnIds |-> IF goneConn(c) THEN NoConn ELSE S.conns[c]],
          !.chans = [x \in ChanIds |->
                      IF S.chans[x].st = "None" THEN NoChan
                      ELSE IF goneConn(S.chans[x].conn) THEN NoChan
                      ELSE IF S.chans[x].owner # 0 /\ goneReq(S.chans[x].owner)
                      THEN [S.chans[x] EXCEPT !.owner = 0]
                      ELSE S.chans[x]]]

\* a process that died keeps only what is stored
Died(S) ==
    [S EXCEPT !.m_requests = << >>,
              !.reqs = [r \in ReqIds |-> NoReq],
              !.conns = [c \in ConnIds |-> NoConn],
              !.chans = [x \in ChanIds |-> NoChan]]

\* the state a handler leaves when control returns to the event loop
Commit(S) ==
    \E T \in {IF S.aborted THEN Died(S) ELSE Sweep(S)} :
       /\ m_requests' = T.m_requests
       /\ reqs' = T.reqs
       /\ conns' = T.conns
       /\ chans' = T.chans
       /\ contactRequests' = T.store
       /\ hostnameBlacklist' = T.blacklist
       /\ contacts' = T.contacts
       /\ rejected' = T.rejected
       /\ trace' = T.trace
       /\ running' = ~T.aborted
       /\ UNCHANGED <<now, scenario, commandBuffer, chat>>

Begin(e) == [State EXCEPT !.trace = <<e>>]

FreeIn(ids, f) == LET free == {i \in ids : f[i].st = "None"}
                  IN IF free = {} THEN 0 ELSE CHOOSE i \in free : \A j \in free : i <= j

\* a first start: nothing is stored, loadRequests finds no key
Boot ==
    /\ m_requests = << >>
    /\ reqs = [r \in ReqIds |-> NoReq]
    /\ conns = [c \in ConnIds |-> NoConn]
    /\ chans = [x \in ChanIds |-> NoChan]
    /\ contactRequests = << >>
    /\ hostnameBlacklist = << >>
    /\ contacts = << >>
    /\ now = 1
    /\ running = TRUE
    /\ rejected = {}
    /\ trace = << >>
    /\ commandBuffer = << >>
    /\ chat = NoChat

Init == Boot /\ scenario \in Scenarios

\* UserIdentity::incomingConnection: a peer connects; id is what the
\* hidden-service authentication of this connection yields
IncomingConnection(id) ==
    /\ running
    /\ id \in IdsOf(scenario)
    /\ FreeIn(ConnIds, conns) # 0
    /\ LET c == FreeIn(ConnIds, conns)
       IN Commit([Begin(<<"incomingConnection", c>>) EXCEPT
                    !.conns[c] = [st |-> "Open", identity |-> id,
                                  purpose |-> "Unknown", parent |-> DefaultParent]])

\* the peer opens a contact-request channel on connection c and the channel
\* emits requestReceived
RequestReceived(c, p, syncInv, syncClosed) ==
    /\ running
    /\ conns[c].st = "Open"
    /\ p \in PayloadsOf(scenario)
    /\ FreeIn(ChanIds, chans) # 0
    /\ LET ch == FreeIn(ChanIds, chans)
           r == FreeIn(ReqIds, reqs)
           h == conns[c].identity
           S == [Begin(<<"requestReceived", h, c, p.nickname, p.message>>) EXCEPT
                   !.chans[ch] = [st |-> "Open", conn |-> c, nickname |-> p.nickname,
                                  message |-> p.message, owner |-> 0]]
       IN /\ r # 0 \/ requestFromHostname(S, h) # 0
          /\ Commit(requestReceived(S, ch, c, r, syncInv, syncClosed, FALSE))

\* the operator accepts request r; supplied: ContactsManager has made the
\* contact for this hostname itself and passes it as user
Accept(r, supplied, claims, asserts, syncInv, syncClosed, ubCont) ==
    /\ running
    /\ r \in Range(m_requests)
    /\ Len(contacts) < MaxContacts
    \* each choice is drawn only where the code reads it
    /\ asserts => (~supplied /\ reqs[r].nickname = "")
    /\ (claims \/ syncInv) => (reqs[r].connection # 0 /\ findChannel(State, reqs[r].connection) # 0)
    /\ syncClosed => reqs[r].connection # 0
    /\ ubCont => (syncInv /\ syncClosed)
    /\ LET h == reqs[r].hostname
           S0 == Begin(<<"accept", h, reqs[r].connection, r>>)
           S == IF supplied
                THEN addContact(Log(S0, <<"supplied", Len(contacts) + 1>>), CallerNick, h)
                ELSE S0
           user == IF supplied THEN Len(S.contacts) ELSE 0
       IN Commit(accept(S, r, user, claims, asserts, syncInv, syncClosed, ubCont))

\* the operator rejects request r
Reject(r, syncInv, syncClosed, ubCont) ==
    /\ running
    /\ r \in Range(m_requests)
    /\ syncInv => (reqs[r].connection # 0 /\ findChannel(State, reqs[r].connection) # 0)
    /\ syncClosed => reqs[r].connection # 0
    /\ ubCont => (syncInv /\ syncClosed)
    /\ LET h == reqs[r].hostname
           R == reject(Begin(<<"reject", h, reqs[r].connection, r>>),
                       r, syncInv, syncClosed, ubCont)
       IN Commit([R EXCEPT !.rejected = IF R.aborted THEN @ ELSE @ \cup {h}])

\* the request is removed through IncomingRequestManager::removeRequest by a
\* caller other than accept() and reject()
RemoveRequest(r) ==
    /\ running
    /\ r \in Range(m_requests)
    /\ Commit(managerRemoveRequest(
                 Begin(<<"removeRequest", reqs[r].hostname, reqs[r].connection, r>>), r))

\* the transport of connection c drops: the connection closes and emits closed
ConnectionDropped(c) ==
    /\ running
    /\ conns[c].st = "Open"
    /\ Commit(ConnClose(Begin(<<"dropped", c>>), c, TRUE))

\* the closed signal of a connection that close() left pending
ClosedDelivered(c) ==
    /\ running
    /\ conns[c].st = "Closed"
    /\ Commit(ClosedEmitted(Begin(<<"closed", c>>), c))

\* a channel closes (the peer closes it, or it finishes closing itself) and
\* emits invalidated
ChannelInvalidated(ch, syncClosed) ==
    /\ running
    /\ chans[ch].st # "None"
    /\ Commit(ChannelClosed(Begin(<<"invalidated", ch>>), ch, syncClosed))

\* time passes
Tick ==
    /\ running
    /\ now < MaxTimeOf(scenario)
    /\ now' = now + 1
    /\ UNCHANGED <<m_requests, reqs, conns, chans, contactRequests,
                   hostnameBlacklist, contacts, running, scenario, rejected, trace,
                   commandBuffer, chat>>

\* IncomingRequestManager::loadRequests at the start of a process
loadRequests(S) ==
    LET ks == StoredKeys(S.store)
    IN [S EXCEPT !.m_requests = [i \in 1..Len(ks) |-> i],
                 !.reqs = [r \in ReqIds |->
                             IF r <= Len(ks) THEN LoadedRequest(S.store, ks[r])
                             ELSE NoReq],
                 !.conns = [c \in ConnIds |-> NoConn],
                 !.chans = [x \in ChanIds |-> NoChan]]

\* the client is shut down and started again
Restart ==
    /\ running
    /\ Len(StoredKeys(contactRequests)) <= MaxReq
    /\ Commit(loadRequests(Begin(<<"loadRequests">>)))

Next ==
    \/ \E id \in AuthIds : IncomingConnection(id)
    \/ \E c \in ConnIds, p \in Payloads, syncInv, syncClosed \in BOOLEAN :
          RequestReceived(c, p, syncInv, syncClosed)
    \/ \E r \in ReqIds, supplied, claims, asserts, syncInv, syncClosed, ubCont \in BOOLEAN :
          Accept(r, supplied, claims, asserts, syncInv, syncClosed, ubCont)
    \/ \E r \in ReqIds, syncInv, syncClosed, ubCont \in BOOLEAN :
          Reject(r, syncInv, syncClosed, ubCont)
    \/ \E r \in ReqIds : RemoveRequest(r)
    \/ \E c \in ConnIds : ConnectionDropped(c)
    \/ \E c \in ConnIds : ClosedDelivered(c)
    \/ \E ch \in ChanIds, syncClosed \in BOOLEAN : ChannelInvalidated(ch, syncClosed)
    \/ Tick
    \/ Restart

Spec == Init /\ [][Next]_vars

TypeOK ==
    /\ m_requests \in Seq(ReqIds)
    /\ \A r \in ReqIds : reqs[r].st \in {"None", "Live"}
    /\ \A c \in ConnIds : conns[c].st \in {"None", "Open", "Closed"}
    /\ \A x \in ChanIds : chans[x].st \in {"None", "Open", "Closing"}
    /\ now \in 1..MaxTime


\* ---- abnormal termination -----------------------------------------------
\* the process is killed inside requestReceived, between the reply of line
\* 152 and the save() of line 154
RequestReceivedKilled(c, p, syncInv, syncClosed) ==
    /\ running
    /\ conns[c].st = "Open"
    /\ p \in PayloadsOf(scenario)
    /\ FreeIn(ChanIds, chans) # 0
    /\ LET ch == FreeIn(ChanIds, chans)
           r == FreeIn(ReqIds, reqs)
           h == conns[c].identity
           S == [Begin(<<"requestReceived", h, c, p.nickname, p.message>>) EXCEPT
                   !.chans[ch] = [st |-> "Open", conn |-> c, nickname |-> p.nickname,
                                  message |-> p.message, owner |-> 0]]
           R == requestReceived(S, ch, c, r, syncInv, syncClosed, TRUE)
       IN /\ r # 0 \/ requestFromHostname(S, h) # 0
          /\ R.aborted
          /\ Commit(R)

\* a process that died is started again: loadRequests on what is stored
Recover ==
    /\ ~running
    /\ Len(StoredKeys(contactRequests)) <= MaxReq
    /\ \E T \in {loadRequests(Begin(<<"loadRequests">>))} :
          /\ m_requests' = T.m_requests
          /\ reqs' = T.reqs
          /\ conns' = T.conns
          /\ chans' = T.chans
          /\ trace' = T.trace
          /\ running' = TRUE
          /\ UNCHANGED <<contactRequests, hostnameBlacklist, contacts, now,
                         scenario, rejected, commandBuffer, chat>>

NextCrash ==
    \/ Next
    \/ \E c \in ConnIds, p \in Payloads, syncInv, syncClosed \in BOOLEAN :
          RequestReceivedKilled(c, p, syncInv, syncClosed)
    \/ Recover

InitCrash == Boot /\ scenario = "kill"

SpecCrash == InitCrash /\ [][NextCrash]_vars

\* ---- ChatMessageCommand (src/unnamed/part_000) -------------------------
\* bounds of the chat model
maxCommandData == 20   \* ProtocolCommand::maxCommandData, scaled down
MaxText == 8           \* characters of a message text
MaxBody == 3           \* bytes that follow the length prefix of an inbound command

\* the literal 6 of send(): the bytes of the command header
HeaderBytes == 6

\* a text is a sequence of code points: "x" (one UTF-8 byte) and U+00E9 (two)
Chars == {120, 233}

RECURSIVE TextsOfLen(_)
TextsOfLen(n) ==
    IF n = 0 THEN {<< >>}
    ELSE {Append(t, ch) : t \in TextsOfLen(n - 1), ch \in Chars}

Texts == UNION {TextsOfLen(n) : n \in 0..MaxText}

\* timestamp.secsTo(currentDateTime()): negative for a timestamp in the future
Ages == {-1, 0, 300}

\* QString::toUtf8 for code points below U+0800
Utf8(cp) == IF cp < 128 THEN <<cp>>
            ELSE <<192 + (cp \div 64), 128 + (cp % 64)>>

RECURSIVE toUtf8(_)
toUtf8(text) ==
    IF text = << >> THEN << >>
    ELSE Utf8(Head(text)) \o toUtf8(Tail(text))

\* the four bytes QDataStream writes for (quint32)n, big-endian; a negative
\* n wraps modulo 2^32 (two's complement)
U32(n) ==
    LET m == IF n >= 0 THEN n ELSE -n - 1
        b == <<(m \div 16777216) % 256, (m \div 65536) % 256,
               (m \div 256) % 256, m % 256>>
    IN IF n >= 0 THEN b ELSE [i \in 1..4 |-> 255 - b[i]]

\* ProtocolCommand::prepareCommand: the buffer holds the header
prepareCommand(state, size) == [i \in 1..HeaderBytes |-> 0]

\* ---- reading the trace of the last handler ------------------------------
Op == IF trace = << >> THEN "none" ELSE trace[1][1]
OpHost == trace[1][2]
OpConn == trace[1][3]
Logged(tag, a) == \E i \in 2..Len(trace) : trace[i][1] = tag /\ trace[i][2] = a
Replied(h, status) ==
    \E i \in 2..Len(trace) :
        trace[i][1] = "reply" /\ trace[i][2] = h /\ trace[i][3] = status
AnyReply == \E i \in 2..Len(trace) : trace[i][1] = "reply"

\* the requests of the active list with hostname h
ActiveFor(h) == {i \in 1..Len(m_requests) : reqs[m_requests[i]].hostname = h}
RemoteHosts == {HostA, HostB}
IsContact(h) == \E k \in 1..Len(contacts) : contacts[k].hostname = h

\* this step is requestReceived, handled to its end, for hostname h
RequestStep(h) ==
    /\ now' = now
    /\ running /\ running'
    /\ trace'[1][1] = "requestReceived"
    /\ trace'[1][2] = h


\* ---- C1 -----------------------------------------------------------------
\* C1: once reject() has removed the request of hostname h, every later
\* requestReceived from h is answered Rejected, leaves the request objects,
\* the active list and the persisted records as they were, and h has no
\* record in the active list.
C1_RejectedStaysRejected ==
    [][\A h \in rejected' :
          /\ running' => ActiveFor(h)' = {}
          /\ (h \in rejected /\ RequestStep(h)) =>
                /\ Replied(h, "Rejected")'
                /\ ~Replied(h, "Pending")'
                /\ UNCHANGED <<m_requests, reqs, contactRequests>>]_vars

\* a request from a hostname that reject() blacklisted has been answered
C1_Witness ==
    /\ running
    /\ Op = "requestReceived"
    /\ OpHost \in rejected
    /\ Replied(OpHost, "Rejected")

\* ---- C2 -----------------------------------------------------------------
\* C2: a requestReceived for a hostname of the blacklist is answered Rejected
\* and changes nothing else: the active list, every request object, the
\* persisted records, the blacklist, the contacts, every connection (purpose,
\* owner, liveness) and every channel that existed.
C2_BlacklistPrecedence ==
    [][\A h \in Range(hostnameBlacklist) :
          RequestStep(h) =>
             /\ Replied(h, "Rejected")'
             /\ UNCHANGED <<m_requests, reqs, contactRequests, hostnameBlacklist,
                            contacts, conns>>
             /\ \A x \in ChanIds : chans[x].st # "None" => chans'[x] = chans[x]]_vars

\* a blacklisted hostname asked again while another connection of the same
\* hostname was open, and its own connection is still open and unclaimed
C2_Witness ==
    /\ running
    /\ Op = "requestReceived"
    /\ OpHost \in Range(hostnameBlacklist)
    /\ Replied(OpHost, "Rejected")
    /\ conns[OpConn].st = "Open"
    /\ conns[OpConn].purpose = "Unknown"
    /\ conns[OpConn].parent = DefaultParent

\* ---- C3 -----------------------------------------------------------------
\* C3: no two requests of the active list have the same hostname, and a
\* requestReceived for a hostname that has a request in the list leaves the
\* list as it is.
C3_UniqueHostnames ==
    /\ [](\A i, j \in 1..Len(m_requests) :
             reqs[m_requests[i]].hostname = reqs[m_requests[j]].hostname => i = j)
    /\ [][\A h \in RemoteHosts :
             (RequestStep(h) /\ ActiveFor(h) # {}) => m_requests' = m_requests]_vars

\* a second request of a hostname has replaced the connection of its record
C3_Witness ==
    /\ running
    /\ Op = "requestReceived"
    /\ Replied(OpHost, "Pending")
    /\ \E c \in ConnIds : c # OpConn /\ Logged("close", c)
    /\ Cardinality(ActiveFor(OpHost)) = 1
    /\ reqs[m_requests[CHOOSE i \in ActiveFor(OpHost) : TRUE]].connection = OpConn

\* ---- C4 -----------------------------------------------------------------
\* C4: a requestReceived for an authenticated, non-blacklisted hostname that
\* is a known contact changes no state: no request object is created or
\* modified, the active list and the persisted records stay as they were, and
\* no connection is closed, re-purposed or re-parented.
C4_KnownContactNoChange ==
    [][\A h \in RemoteHosts :
          (/\ RequestStep(h)
           /\ IsContact(h)
           /\ h \notin Range(hostnameBlacklist)) =>
             UNCHANGED <<m_requests, reqs, contactRequests, conns>>]_vars

\* a known contact asked again: the handler logged the bug of line 147 after
\* it had made a request object and given the connection to it
C4_Witness ==
    /\ running
    /\ Op = "requestReceived"
    /\ IsContact(OpHost)
    /\ Logged("bug", 147)
    /\ ~AnyReply
    /\ conns[OpConn].st = "Open"
    /\ conns[OpConn].purpose = "InboundRequest"
    /\ \E r \in ReqIds : /\ reqs[r].st = "Live"
                         /\ reqs[r].hostname = OpHost
                         /\ reqs[r].connection = OpConn
                         /\ conns[OpConn].parent = ReqParent(r)
                         /\ r \notin Range(m_requests)

\* ---- C5 -----------------------------------------------------------------
\* C5: whenever requestReceived has replied Pending for hostname h, the
\* record of h is in the persisted store.
C5_PendingImpliesPersisted ==
    \A h \in RemoteHosts :
        (Op = "requestReceived" /\ Replied(h, "Pending")) =>
            settingsKey(h) \in DOMAIN contactRequests

\* the process died after the Pending reply, nothing is stored for the
\* hostname, and the restart finds no request
C5_Witness ==
    /\ ~running
    /\ Op = "requestReceived"
    /\ Replied(OpHost, "Pending")
    /\ settingsKey(OpHost) \notin DOMAIN contactRequests
    /\ loadRequests(State).m_requests = << >>

\* ---- C6 -----------------------------------------------------------------
\* the request of the active list for hostname h (there is at most one)
RecordOf(h) == m_requests[CHOOSE i \in ActiveFor(h) : TRUE]

\* this step handles a request of a hostname that is authenticated, not
\* blacklisted and not a contact
SuccessStep(h) ==
    /\ RequestStep(h)
    /\ h \notin Range(hostnameBlacklist)
    /\ ~IsContact(h)

\* C6: a request of an authenticated, non-blacklisted, non-contact hostname
\* leaves exactly one active record and one persisted record for it; the
\* first request stamps requestDate and lastRequestDate with its time, the
\* next one sets lastRequestDate to its own time and keeps requestDate.
C6_IdempotentRenewal ==
    [][\A h \in RemoteHosts :
          SuccessStep(h) =>
             /\ Cardinality(ActiveFor(h)') = 1
             /\ DOMAIN contactRequests' = DOMAIN contactRequests \cup {settingsKey(h)}
             /\ LET q == reqs'[RecordOf(h)']
                    rec == contactRequests'[settingsKey(h)]
                    first == IF ActiveFor(h) = {} THEN now
                             ELSE reqs[RecordOf(h)].requestDate
                IN /\ q.requestDate = first
                   /\ q.lastRequestDate = now
                   /\ rec.requestDate = first
                   /\ rec.lastRequestDate = now]_vars

\* the second request of a hostname came later than its first
C6_Witness ==
    /\ running
    /\ Op = "requestReceived"
    /\ Replied(OpHost, "Pending")
    /\ Cardinality(ActiveFor(OpHost)) = 1
    /\ reqs[RecordOf(OpHost)].requestDate = 1
    /\ reqs[RecordOf(OpHost)].lastRequestDate = 2
    /\ contactRequests[settingsKey(OpHost)].requestDate = 1
    /\ contactRequests[settingsKey(OpHost)].lastRequestDate = 2

\* ---- C7 -----------------------------------------------------------------
\* this step handles a request of a hostname that has a Pending record
RenewalStep(h) == SuccessStep(h) /\ ActiveFor(h) # {}

\* C7 as the specification states it: the second request keeps the record,
\* is answered Pending, and leaves nickname, message and requestDate, in
\* memory and persisted, as they were, whatever its channel carries.
C7_OnlyLastRequestDateChanges ==
    [][\A h \in RemoteHosts :
          RenewalStep(h) =>
             LET r == RecordOf(h)
                 rec == contactRequests'[settingsKey(h)]
             IN /\ m_requests' = m_requests
                /\ Replied(h, "Pending")'
                /\ reqs'[r].nickname = reqs[r].nickname
                /\ reqs'[r].message = reqs[r].message
                /\ reqs'[r].requestDate = reqs[r].requestDate
                /\ rec.nickname = reqs[r].nickname
                /\ rec.message = reqs[r].message
                /\ rec.requestDate = reqs[r].requestDate]_vars

\* C7: the second request keeps the record, is answered Pending, keeps
\* requestDate and sets lastRequestDate to its time, in memory and persisted;
\* nickname and message become those of the second request's channel when
\* its connection is attached (its purpose was Unknown), and stay otherwise.
C7_RenewalTakesNewText ==
    [][\A h \in RemoteHosts :
          RenewalStep(h) =>
             LET r == RecordOf(h)
                 attached == conns[trace'[1][3]].purpose = "Unknown"
                 nick == IF attached THEN trace'[1][4] ELSE reqs[r].nickname
                 msg == IF attached THEN trace'[1][5] ELSE reqs[r].message
             IN /\ m_requests' = m_requests
                /\ Replied(h, "Pending")'
                /\ reqs'[r].st = "Live"
                /\ reqs'[r].hostname = h
                /\ reqs'[r].nickname = nick
                /\ reqs'[r].message = msg
                /\ reqs'[r].requestDate = reqs[r].requestDate
                /\ reqs'[r].lastRequestDate = now
                /\ contactRequests'[settingsKey(h)] =
                      [nickname |-> nick, message |-> msg,
                       requestDate |-> reqs[r].requestDate,
                       lastRequestDate |-> now]]_vars

\* a later request of the hostname replaced the connection of its record and
\* the record carries the text of that request
C7_Witness ==
    /\ running
    /\ Op = "requestReceived"
    /\ Replied(OpHost, "Pending")
    /\ ActiveFor(OpHost) # {}
    /\ \E c \in ConnIds : c # OpConn /\ Logged("close", c)
    /\ reqs[RecordOf(OpHost)].connection = OpConn
    /\ reqs[RecordOf(OpHost)].requestDate < reqs[RecordOf(OpHost)].lastRequestDate
    /\ reqs[RecordOf(OpHost)].nickname = "Bob"
    /\ trace[1][4] = "Bob"
    /\ contactRequests[settingsKey(OpHost)].nickname = "Bob"
    /\ contactRequests[settingsKey(OpHost)].message = "yo"

\* ---- C8 -----------------------------------------------------------------
\* C8: in every reachable state no request of the active list has the
\* hostname of a known contact.
C8_NoActiveRequestForContact ==
    \A i \in 1..Len(m_requests) : ~IsContact(reqs[m_requests[i]].hostname)

\* accept() died at line 333 after the contact was made and before the
\* persisted request was removed; the next start loaded the request again
C8_Witness ==
    /\ running
    /\ Op = "loadRequests"
    /\ \E i \in 1..Len(m_requests) : IsContact(reqs[m_requests[i]].hostname)

\* ---- C9 -----------------------------------------------------------------
\* request r has a live connection that still owns a request channel
LiveChannel(r) ==
    /\ running
    /\ r \in Range(m_requests)
    /\ reqs[r].connection # 0
    /\ conns[reqs[r].connection].st = "Open"
    /\ findChannel(State, reqs[r].connection) # 0

\* this step is handler op, run to its return, on request r
HandledTo(op, r) ==
    /\ now' = now
    /\ running'
    /\ trace'[1] = <<op, reqs[r].hostname, reqs[r].connection, r>>

\* C9: reject() on a request with a live connection and request channel
\* sends Rejected before the connection is closed, and when it returns the
\* connection is closed, no request references it, the persisted record is
\* gone, the hostname is blacklisted and the request has left the list.
C9_RejectSendsThenCloses ==
    [][\A r \in ReqIds, c \in ConnIds, h \in RemoteHosts :
          (/\ LiveChannel(r)
           /\ HandledTo("reject", r)
           /\ reqs[r].connection = c
           /\ reqs[r].hostname = h) =>
             /\ \E i, j \in 2..Len(trace') :
                   /\ i < j
                   /\ trace'[i] = <<"reply", h, "Rejected">>
                   /\ trace'[j] = <<"close", c>>
             /\ conns'[c].st # "Open"
             /\ \A q \in ReqIds : reqs'[q].connection # c
             /\ settingsKey(h) \notin DOMAIN contactRequests'
             /\ h \in Range(hostnameBlacklist')
             /\ r \notin Range(m_requests')
             /\ ActiveFor(h)' = {}]_vars

\* reject() returned after it had replied on the channel of its connection
C9_Witness ==
    /\ running
    /\ Op = "reject"
    /\ OpConn # 0
    /\ Replied(OpHost, "Rejected")
    /\ Logged("close", OpConn)
    /\ OpHost \in Range(hostnameBlacklist)
    /\ settingsKey(OpHost) \notin DOMAIN contactRequests
    /\ ActiveFor(OpHost) = {}

\* ---- C10 ----------------------------------------------------------------
\* C10: accept() on a request with a live connection and request channel
\* sends Accepted and clears the request's reference; when it returns the
\* connection is owned by the contact or closed, closed exactly when the
\* contact did not claim it, and never owned by the request.
C10_AcceptHandsOver ==
    [][\A r \in ReqIds, c \in ConnIds, h \in RemoteHosts :
          (/\ LiveChannel(r)
           /\ HandledTo("accept", r)
           /\ reqs[r].connection = c
           /\ reqs[r].hostname = h) =>
             /\ Replied(h, "Accepted")'
             /\ \A q \in ReqIds : reqs'[q].connection # c
             /\ conns'[c].parent # ReqParent(r)
             /\ (conns'[c].st # "Open") <=> ~Logged("claimed", c)'
             /\ conns'[c].st = "Open" => conns'[c].parent[1] = "contact"]_vars

\* accept() returned with a connection that the contact claimed and that the
\* invalidated handler closed nevertheless
C10_Witness ==
    /\ running
    /\ Op = "accept"
    /\ OpConn # 0
    /\ Replied(OpHost, "Accepted")
    /\ Logged("claimed", OpConn)
    /\ Logged("close", OpConn)
    /\ conns[OpConn].st = "Closed"
    /\ conns[OpConn].parent[1] = "contact"

\* ---- C11 ----------------------------------------------------------------
\* the last handler was given a contact by its caller
Supplied == \E i \in 2..Len(trace) : trace[i][1] = "supplied"

\* C11: accept(none) on an active request with a non-empty nickname, hostname
\* h and no attached connection creates exactly one contact with that
\* nickname and hostname, removes the persisted record of h, removes the
\* request from the active list and sends no reply.
C11_AcceptWithoutConnection ==
    [][\A r \in ReqIds, h \in RemoteHosts :
          (/\ running
           /\ r \in Range(m_requests)
           /\ reqs[r].hostname = h
           /\ reqs[r].connection = 0
           /\ reqs[r].nickname # ""
           /\ HandledTo("accept", r)
           /\ ~Supplied') =>
             /\ contacts' = Append(contacts, [nickname |-> reqs[r].nickname,
                                              hostname |-> h])
             /\ DOMAIN contactRequests' = DOMAIN contactRequests \ {settingsKey(h)}
             /\ settingsKey(h) \notin DOMAIN contactRequests'
             /\ m_requests' = Remove(m_requests, r)
             /\ ActiveFor(h)' = {}
             /\ ~AnyReply']_vars

\* accept(none) returned for a request without connection: the contact it
\* made carries the nickname of the request
C11_Witness ==
    /\ running
    /\ Op = "accept"
    /\ OpConn = 0
    /\ ~Supplied
    /\ ~AnyReply
    /\ contacts # << >>
    /\ contacts[Len(contacts)] = [nickname |-> "Bob", hostname |-> OpHost]
    /\ settingsKey(OpHost) \notin DOMAIN contactRequests
    /\ ActiveFor(OpHost) = {}

\* ---- C12 ----------------------------------------------------------------
\* C12: accept(none) on an active request with an empty nickname and no
\* attached connection fails: no contact is created, and where the process
\* goes on the request is still in the list and in the persisted store.
C12_EmptyNicknameRefused ==
    [][\A r \in ReqIds, h \in RemoteHosts :
          (/\ running
           /\ r \in Range(m_requests)
           /\ reqs[r].hostname = h
           /\ reqs[r].connection = 0
           /\ reqs[r].nickname = ""
           /\ now' = now
           /\ trace'[1] = <<"accept", h, 0, r>>
           /\ ~Supplied') =>
             /\ contacts' = contacts
             /\ running' => /\ r \in Range(m_requests')
                            /\ settingsKey(h) \in DOMAIN contactRequests']_vars

\* accept(none) returned for a request with an empty nickname and no
\* connection: a contact with an empty nickname exists and the request is gone
C12_Witness ==
    /\ running
    /\ Op = "accept"
    /\ OpConn = 0
    /\ ~Supplied
    /\ contacts # << >>
    /\ contacts[Len(contacts)] = [nickname |-> "", hostname |-> OpHost]
    /\ settingsKey(OpHost) \notin DOMAIN contactRequests
    /\ ActiveFor(OpHost) = {}

\* ---- C13 ----------------------------------------------------------------
\* the hostnames that have a persisted contactRequests entry
StoredHosts == {HostOfKey(k) : k \in DOMAIN contactRequests}

\* the hostnames of the requests of the active list
ActiveHosts == {reqs[m_requests[i]].hostname : i \in 1..Len(m_requests)}

\* C13: while the client runs, the hostnames with a persisted entry are the
\* hostnames of the active list: accept, reject and removal through the
\* manager delete the persisted entry when they destroy the request.
C13_StoreMatchesList == running => StoredHosts = ActiveHosts

\* a request was removed through the manager and its persisted entry is
\* still there: the next start would load it again
C13_Witness ==
    /\ running
    /\ Op = "removeRequest"
    /\ ActiveFor(OpHost) = {}
    /\ settingsKey(OpHost) \in DOMAIN contactRequests
    /\ loadRequests(State).m_requests # << >>

\* ---- C14 ----------------------------------------------------------------
\* the peer of the connection of request r disconnects: the request stays in
\* the list and in the store as it was and its connection reference empties
DropKeepsRecord(r) ==
    \A c \in ConnIds :
        (reqs[r].connection = c /\ now' = now /\ trace'[1] = <<"dropped", c>>) =>
            /\ running'
            /\ m_requests' = m_requests
            /\ contactRequests' = contactRequests
            /\ reqs'[r] = [reqs[r] EXCEPT !.connection = 0]

\* reject() on request r of hostname h without connection completes
RejectCompletes(r, h) ==
    (reqs[r].connection = 0 /\ now' = now /\ trace'[1] = <<"reject", h, 0, r>>) =>
        /\ running'
        /\ r \notin Range(m_requests')
        /\ settingsKey(h) \notin DOMAIN contactRequests'
        /\ h \in Range(hostnameBlacklist')

\* accept() on request r of hostname h without connection completes
AcceptCompletes(r, h) ==
    /\ running'
    /\ r \notin Range(m_requests')
    /\ settingsKey(h) \notin DOMAIN contactRequests'
    /\ IsContact(h)'

\* C14 as the specification states it: a request outlives its connection and
\* every later accept() or reject() on it completes.
C14_AnyLaterDecisionCompletes ==
    [][\A r \in ReqIds, h \in RemoteHosts :
          (running /\ r \in Range(m_requests) /\ reqs[r].hostname = h) =>
             /\ DropKeepsRecord(r)
             /\ RejectCompletes(r, h)
             /\ (/\ reqs[r].connection = 0
                 /\ now' = now
                 /\ trace'[1] = <<"accept", h, 0, r>>) => AcceptCompletes(r, h)]_vars

\* C14: a request outlives its connection: when the peer disconnects the
\* request stays listed and persisted with nickname, message and timestamps
\* unchanged and its connection reference empties; a later reject() completes
\* (request removed, hostname blacklisted), and a later accept() completes
\* when the nickname is not empty or the caller supplies the contact.
C14_RecordOutlivesConnection ==
    [][\A r \in ReqIds, h \in RemoteHosts :
          (running /\ r \in Range(m_requests) /\ reqs[r].hostname = h) =>
             /\ DropKeepsRecord(r)
             /\ RejectCompletes(r, h)
             /\ (/\ reqs[r].connection = 0
                 /\ now' = now
                 /\ trace'[1] = <<"accept", h, 0, r>>
                 /\ (reqs[r].nickname # "" \/ Supplied')) => AcceptCompletes(r, h)]_vars

\* the peer disconnected and the request is still listed and persisted
\* without connection
C14_Witness ==
    /\ running
    /\ Op = "dropped"
    /\ Len(trace) = 2
    /\ trace[2][1] = "close"
    /\ \E i \in 1..Len(m_requests) :
          /\ reqs[m_requests[i]].connection = 0
          /\ settingsKey(reqs[m_requests[i]].hostname) \in DOMAIN contactRequests
          /\ contactRequests[settingsKey(reqs[m_requests[i]].hostname)].nickname =
                reqs[m_requests[i]].nickname
    /\ \A c \in ConnIds : conns[c].st = "None"

\* ---- C15 ----------------------------------------------------------------
\* the identities that are empty or do not end in ".onion"
BadIds == {id \in AuthIds : id = << >> \/ id[Len(id)] # Onion}

\* C15: a requestReceived on a connection whose authenticated identity is
\* empty or does not end in ".onion" is answered Error and changes nothing:
\* no request is created or renewed, nothing is persisted, blacklist and
\* contacts stay, and the connection stays open with purpose and owner as
\* they were.
C15_UnauthenticatedIsError ==
    [][\A h \in BadIds :
          RequestStep(h) =>
             /\ Replied(h, "Error")'
             /\ ~Replied(h, "Pending")'
             /\ UNCHANGED <<m_requests, reqs, contactRequests, hostnameBlacklist,
                            contacts, conns>>
             /\ conns'[trace'[1][3]].st = "Open"
             /\ conns'[trace'[1][3]].purpose = "Unknown"]_vars

\* a request on a connection without a hidden-service identity was answered
\* Error while a request of another peer was pending
C15_Witness ==
    /\ running
    /\ Op = "requestReceived"
    /\ OpHost \in BadIds
    /\ Replied(OpHost, "Error")
    /\ conns[OpConn].st = "Open"
    /\ conns[OpConn].purpose = "Unknown"
    /\ conns[OpConn].parent = DefaultParent
    /\ m_requests # << >>

\* ---- ChatMessageCommand: send and process -------------------------------
\* ChatMessageCommand::send, lines 13-31.  asserts: the build keeps
\* Q_ASSERT_X, which stops the process when the text has to be truncated.
send(text, age, asserts) ==
    LET utf8 == toUtf8(text)
        over == Len(utf8) > maxCommandData - HeaderBytes
        encodedText == IF over THEN SubSeq(utf8, 1, maxCommandData - HeaderBytes)
                       ELSE utf8
        reserved == Len(encodedText) + 6
    IN IF over /\ asserts
       THEN [aborted |-> TRUE, truncated |-> FALSE, encodedText |-> utf8,
             reserved |-> 0, buffer |-> << >>]
       ELSE [aborted |-> FALSE, truncated |-> over, encodedText |-> encodedText,
             reserved |-> reserved,
             buffer |-> prepareCommand(0, reserved) \o U32(age)
                           \o U32(Len(encodedText)) \o encodedText]

\* the length QDataStream reads back from four bytes: -1 for the null marker
\* 0xFFFFFFFF, -2 for any other length of 2^31 or more
ReadLen(b) ==
    IF b = <<255, 255, 255, 255>> THEN -1
    ELSE IF b[1] >= 128 THEN -2
    ELSE b[1] * 16777216 + b[2] * 65536 + b[3] * 256 + b[4]

\* ChatMessageCommand::process, lines 33-50, on the data of a command:
\* stream >> timestamp >> encodedText, then the test of the stream status
process(data) ==
    LET haveTs == Len(data) >= 4
        haveLen == Len(data) >= 8
        len == IF haveLen THEN ReadLen(SubSeq(data, 5, 8)) ELSE 0
        haveText == haveLen /\ (len = -1 \/ (len >= 0 /\ Len(data) - 8 >= len))
        status == IF haveTs /\ haveLen /\ haveText THEN "Ok" ELSE "ReadPastEnd"
    IN [status |-> status,
        processed |-> status = "Ok",
        timestamp |-> IF haveTs THEN SubSeq(data, 1, 4) ELSE U32(0),
        encodedText |-> IF status = "Ok" /\ len > 0 THEN SubSeq(data, 9, 8 + len)
                        ELSE << >>]

\* the data an inbound chat command can carry: a relative age, a length
\* prefix and some bytes, whole or cut short
LenFields == {U32(n) : n \in 0..MaxBody} \cup {<<255, 255, 255, 255>>, <<128, 0, 0, 0>>}
Frames == {U32(a) \o l \o [i \in 1..k |-> 120] : a \in {0, 300}, l \in LenFields,
                                                   k \in 0..MaxBody}
Datas == UNION {{SubSeq(f, 1, k) : k \in 0..Len(f)} : f \in Frames}

managerVars == <<m_requests, reqs, conns, chans, contactRequests, hostnameBlacklist,
                 contacts, now, scenario, rejected, trace>>

\* the client sends a chat message with a new command object
Send(text, age, asserts) ==
    /\ running
    /\ scenario = "chat"
    /\ chat = NoChat
    /\ asserts => Len(toUtf8(text)) > maxCommandData - HeaderBytes
    /\ \E R \in {send(text, age, asserts)} :
          /\ commandBuffer' = R.buffer
          /\ chat' = [op |-> "send", text |-> text, age |-> age,
                      aborted |-> R.aborted, truncated |-> R.truncated,
                      encodedText |-> R.encodedText, reserved |-> R.reserved]
          /\ running' = ~R.aborted
    /\ UNCHANGED managerVars

\* a chat command arrives from the peer and is given to a new command object
Process(data) ==
    /\ running
    /\ scenario = "chat"
    /\ chat = NoChat
    /\ \E R \in {process(data)} :
          chat' = [op |-> "process", data |-> data, status |-> R.status,
                   processed |-> R.processed, timestamp |-> R.timestamp,
                   encodedText |-> R.encodedText]
    /\ UNCHANGED <<commandBuffer, running>>
    /\ UNCHANGED managerVars

\* the command object is done with and deleted
Finished ==
    /\ running
    /\ scenario = "chat"
    /\ chat # NoChat
    /\ commandBuffer' = << >>
    /\ chat' = NoChat
    /\ UNCHANGED running
    /\ UNCHANGED managerVars

InitChat == Boot /\ scenario = "chat"

NextChat ==
    \/ \E text \in Texts, age \in Ages, asserts \in BOOLEAN : Send(text, age, asserts)
    \/ \E data \in Datas : Process(data)
    \/ Finished

SpecChat == InitChat /\ [][NextChat]_vars

\* ---- C16 ----------------------------------------------------------------
\* C16: for every text, the command send() builds fits the frame: the text
\* is cut to maxCommandData - 6 bytes, and the bytes written (header,
\* relative age, length prefix, text) are at most maxCommandData and at
\* most the length declared to prepareCommand (text size + 6).
C16_CommandFitsFrame ==
    (chat.op = "send" /\ ~chat.aborted) =>
        /\ Len(chat.encodedText) <= maxCommandData - HeaderBytes
        /\ Len(commandBuffer) = HeaderBytes + 4 + 4 + Len(chat.encodedText)
        /\ Len(commandBuffer) <= maxCommandData
        /\ Len(commandBuffer) <= chat.reserved

\* a text was truncated at the limit and the command written is eight bytes
\* longer than the largest frame and than the length declared
C16_Witness ==
    /\ chat.op = "send"
    /\ ~chat.aborted
    /\ chat.truncated
    /\ Len(chat.encodedText) = maxCommandData - HeaderBytes
    /\ chat.reserved = maxCommandData
    /\ Len(commandBuffer) = maxCommandData + 8

\* ---- C17 ----------------------------------------------------------------
\* the data is exactly a relative age and a length-prefixed text
ExactFields(data) ==
    /\ Len(data) >= 8
    /\ \/ ReadLen(SubSeq(data, 5, 8)) = -1 /\ Len(data) = 8
       \/ ReadLen(SubSeq(data, 5, 8)) >= 0
            /\ Len(data) = 8 + ReadLen(SubSeq(data, 5, 8))

\* C17: process() handles a command exactly when its data is the relative
\* age and the length-prefixed text and nothing else; data that is shorter
\* than declared, or that has bytes left after the two fields, is reported
\* as invalid and discarded.
C17_MalformedDiscarded ==
    chat.op = "process" => (chat.processed <=> ExactFields(chat.data))

\* a command with bytes left after its text was processed as a chat message
C17_Witness ==
    /\ chat.op = "process"
    /\ chat.processed
    /\ chat.status = "Ok"
    /\ Len(chat.data) > 8
    /\ ReadLen(SubSeq(chat.data, 5, 8)) >= 0
    /\ Len(chat.data) > 8 + ReadLen(SubSeq(chat.data, 5, 8))

\* ---- C18 ----------------------------------------------------------------
\* C18: the request channel closing itself after the Accepted reply never
\* closes the connection handed to the contact: neither accept() nor a later
\* delivery of invalidated closes a connection that the contact claimed.
C18_ChannelCloseSparesContact ==
    [][\A c \in ConnIds :
          (/\ now' = now
           /\ trace'[1][1] \in {"accept", "invalidated"}
           /\ Logged("claimed", c)' \/ conns[c].parent[1] = "contact") =>
             ~Logged("close", c)']_vars

\* inside accept() the contact claimed the connection, Accepted was sent,
\* and the invalidated handler then closed the connection
C18_Witness ==
    /\ running
    /\ Op = "accept"
    /\ OpConn # 0
    /\ \E i, j, k \in 2..Len(trace) :
          /\ i < j /\ j < k
          /\ trace[i] = <<"claimed", OpConn>>
          /\ trace[j] = <<"reply", OpHost, "Accepted">>
          /\ trace[k] = <<"close", OpConn>>
    /\ ~Logged("bug", 334)
    /\ conns[OpConn].st = "Closed"

\* ---- C19 ----------------------------------------------------------------
\* C19: accept() and reject() never use the tracked connection reference
\* after a re-entrant close has cleared it.
C19_NoClearedDereference ==
    \A i \in 1..Len(trace) : trace[i][1] # "nullderef"

\* reject() sent Rejected, the handlers closed the connection and cleared the
\* reference inside the call, and line 360 called close() through it
C19_Witness ==
    /\ Op = "reject"
    /\ OpConn # 0
    /\ \E i, j, k \in 2..Len(trace) :
          /\ i < j /\ j < k
          /\ trace[i] = <<"reply", OpHost, "Rejected">>
          /\ trace[j] = <<"close", OpConn>>
          /\ trace[k] = <<"nullderef", 360>>
    /\ ~running
    /\ settingsKey(OpHost) \in DOMAIN contactRequests
    /\ OpHost \notin Range(hostnameBlacklist)

\* ---- C20 ----------------------------------------------------------------
\* C20: a request only ever holds a connection it successfully claimed: a
\* connection referenced by a request has purpose InboundRequest and is
\* referenced by no other request, and a requestReceived that reaches
\* setChannel on a connection whose purpose is already claimed closes that
\* connection and attaches it to no request.
C20_HoldsOnlyClaimed ==
    /\ [](\A r \in ReqIds :
             reqs[r].connection # 0 =>
                /\ reqs[r].st # "None"
                /\ conns[reqs[r].connection].purpose = "InboundRequest"
                /\ \A q \in ReqIds :
                      reqs[q].connection = reqs[r].connection => q = r)
    /\ [][\A h \in RemoteHosts, c \in ConnIds :
             (/\ RequestStep(h)
              /\ trace'[1][3] = c
              /\ h \notin Range(hostnameBlacklist)
              /\ conns[c].purpose # "Unknown") =>
                /\ conns'[c].st # "Open"
                /\ \A r \in ReqIds :
                      reqs'[r].connection = c => reqs[r].connection = c]_vars

\* a second request channel on the connection the request already holds:
\* setPurpose failed, the connection was closed, and no other request got it
C20_Witness ==
    /\ running
    /\ Op = "requestReceived"
    /\ OpHost \in RemoteHosts
    /\ Logged("close", OpConn)
    /\ Replied(OpHost, "Pending")
    /\ conns[OpConn].st = "Closed"
    /\ conns[OpConn].purpose = "InboundRequest"
    /\ \E r \in Range(m_requests) :
          /\ reqs[r].hostname = OpHost
          /\ reqs[r].connection = OpConn

====
